---- MODULE Spec2Model ----
(***************************************************************************)
(* The correction ledger of stet (app/main.py): create_correction as a     *)
(* read-committed transaction over the corrections and idempotency tables, *)
(* one step per store round-trip, with any number of request handlers      *)
(* running at once; the external revoke; and the history projection.       *)
(***************************************************************************)
EXTENDS Integers, Sequences, FiniteSets, TLC

\* ------------------------------------------------------------------ bounds
\* Timestamps / ids handed out by the handlers (uuid4() and now()).
MaxClock == 3

\* Heartbeats recorded, and the seconds the wall clock may reach, in the runs
\* of the drift evaluator.
MaxBeats == 3
MaxTime == 190

\* Pools asyncpg.create_pool may hand out in the runs of app/db.py.
MaxPools == 3

\* Request handlers that may run at the same time.
Procs == {"p1", "p2"}

\* ------------------------------------------------------------- input sets
Tenants == {"t1", "t2"}
Subjects == {"s1", "s2"}
FieldKeys == {"f1", "f2"}
Values == {"v1"}
IdemKeys == {"k1", "k2"}
Actors == {"a1"}

\* models.py: supersedes: Optional[UUID] = None
NoId == 0

\* A uuid that names no stored correction.
AbsentId == MaxClock + 1

\* models.py Permissions: three optional lists (None and [] both read as empty).
PermReaders == [readers |-> {"r1"}, scopes |-> {}, deny_list |-> {}]
PermNone == [readers |-> {}, scopes |-> {}, deny_list |-> {}]
PermDenied == [readers |-> {"r1"}, scopes |-> {"sc1"}, deny_list |-> {"r1"}]

NoRow == [correction_id |-> NoId]

\* ------------------------------------------------------------------ state
VARIABLES
    corrections,   \* committed rows of table corrections: correction_id -> row
    idempotency,   \* committed rows of table idempotency
    clock,         \* the wall clock, read by now(); also the source of fresh uuids
    pc,            \* where each handler is in create_correction
    req,           \* the request a handler is serving (tenant header + payload)
    tx,            \* the handler's locals and its transaction's uncommitted writes
    resp,          \* the response of the handler's last call
    retry,         \* ghost: the call is an undisturbed resubmission after a 409
    call,          \* one call of is_allowed: its arguments and its result
    heartbeats,    \* rows of table enforcement_heartbeats, in insertion order
    db             \* app/db.py: the global _POOL and the coroutines inside
                   \* get_pool and close_pool

vars == <<corrections, idempotency, clock, pc, req, tx, resp, retry,
          call, heartbeats, db>>

\* What create_correction and the external revoke never touch.
elsewhere == <<call, heartbeats, db>>

\* -------------------------------------------------------------- app/logic.py
\* canonical_json_sha256: the payload's fields in sorted key order; sha256 is
\* taken to be collision free, so the digest is the canonical serialisation.
canonical_json_sha256(obj) ==
    << <<"actor", obj.actor>>, <<"class", obj.class>>,
       <<"field_key", obj.field_key>>,
       <<"idempotency_key", obj.idempotency_key>>,
       <<"permissions", obj.permissions>>, <<"subject", obj.subject>>,
       <<"supersedes", obj.supersedes>>, <<"value", obj.value>> >>

\* payload.model_dump(by_alias=True): the body without the tenant header.
model_dump(r) ==
    [actor |-> r.actor, class |-> r.class, field_key |-> r.field_key,
     idempotency_key |-> r.idempotency_key, permissions |-> r.permissions,
     subject |-> r.subject, supersedes |-> r.supersedes, value |-> r.value]

PayloadHash(r) == canonical_json_sha256(model_dump(r))

\* A query-string value as str.split(",") cuts it; the empty sequence is the
\* parameter left out (None) or sent empty.
NoCsv == << >>

\* str.strip() on the pieces the callers send.
strip(v) ==
    CASE v = " sc1 " -> "sc1"
      [] v = " " -> ""
      [] OTHER -> v

\* parse_csv: no value gives []; else the stripped pieces that are not empty.
parse_csv(value) ==
    IF value = NoCsv THEN << >>
    ELSE LET stripped == [n \in 1..Len(value) |-> strip(value[n])]
         IN SelectSeq(stripped, LAMBDA v : v # "")

\* permissions.get(key) or []: a key left out reads as the empty list.
PermissionList(permissions, key) ==
    IF key \in DOMAIN permissions THEN permissions[key] ELSE {}

\* mutant: readers are consulted before the deny_list.
is_allowed_readers_first(requester_id, requester_scopes, permissions) ==
    IF requester_id \in PermissionList(permissions, "readers") THEN TRUE
    ELSE IF requester_id \in PermissionList(permissions, "deny_list") THEN FALSE
    ELSE LET allowed_scopes == PermissionList(permissions, "scopes")
         IN \E n \in 1..Len(requester_scopes) :
                requester_scopes[n] \in allowed_scopes

\* is_allowed: deny_list, then readers, then scopes, else False.
is_allowed(requester_id, requester_scopes, permissions) ==
    LET deny == PermissionList(permissions, "deny_list")
        readers == PermissionList(permissions, "readers")
        allowed_scopes == PermissionList(permissions, "scopes")
    IN  IF requester_id \in deny THEN FALSE
        ELSE IF requester_id \in readers THEN TRUE
        ELSE IF /\ allowed_scopes # {}
                /\ \E n \in 1..Len(requester_scopes) :
                      requester_scopes[n] \in allowed_scopes
        THEN TRUE
        ELSE FALSE

\* --------------------------------------------------------------- requests
Request(t, s, f, v, c, perms, k, sup) ==
    [tenant_id |-> t, subject |-> s, field_key |-> f, value |-> v, class |-> c,
     permissions |-> perms, actor |-> "a1", idempotency_key |-> k,
     supersedes |-> sup]

NoReq == Request("t1", "s1", "f1", "v1", "FACT", PermNone, "k1", NoId)

NoTx == [superseded_id |-> NoId, new_id |-> NoId, now |-> 0]

NoResp == [status_code |-> 0, code |-> "", correction_id |-> NoId,
           status |-> "", supersedes |-> NoId, created_at |-> 0]

\* ----------------------------------------------------------------- store
\* The columns of the ACTIVE-uniqueness constraint.
FieldOf(row) == <<row.tenant_id, row.subject, row.field_key>>

InFlight(q) == pc[q] \in {"target", "write"}

\* mutant: the lookup compares the key with the wrong column and never matches.
IdemLookupWrongColumn(t, k) ==
    {i \in idempotency : i.tenant_id = t /\ i.tenant_id = k}

\* SELECT ... FROM idempotency WHERE tenant_id=$1 AND key=$2
IdemLookup(t, k) == {i \in idempotency : i.tenant_id = t /\ i.key = k}

\* SELECT ... FROM corrections WHERE tenant_id=$1 AND correction_id=$2
TargetLookup(t, id) ==
    IF id \in DOMAIN corrections /\ corrections[id].tenant_id = t
    THEN corrections[id] ELSE NoRow

\* mutant: only a missing target is turned away.
TargetRejectedOnlyMissing(target) == target = NoRow

\* if not target or target["status"] != ACTIVE: raise 400
TargetRejected(target) ==
    target = NoRow \/ target.status # "ACTIVE"

\* mutant: the query forgets AND status='ACTIVE'.
ExistingActiveAnyStatus(r) ==
    {id \in DOMAIN corrections : FieldOf(corrections[id]) = FieldOf(r)}

\* SELECT correction_id FROM corrections WHERE tenant_id=$1 AND subject...=$2,$3
\* AND field_key=$4 AND status='ACTIVE'
ExistingActive(r) ==
    {id \in DOMAIN corrections :
        /\ FieldOf(corrections[id]) = FieldOf(r)
        /\ corrections[id].status = "ACTIVE"}

\* The row the INSERT writes.
NewRow(r, t) ==
    [correction_id |-> t.new_id, tenant_id |-> r.tenant_id,
     subject |-> r.subject, field_key |-> r.field_key, value |-> r.value,
     class |-> r.class, status |-> "ACTIVE", supersedes |-> t.superseded_id,
     permissions |-> r.permissions, actor |-> r.actor,
     idempotency_key |-> r.idempotency_key, created_at |-> t.now]

\* mutant: the idempotency row is bound to the superseded correction.
NewIdemBoundToTarget(r, t) ==
    [tenant_id |-> r.tenant_id, key |-> r.idempotency_key,
     correction_id |-> t.superseded_id, payload_hash |-> PayloadHash(r)]

\* The idempotency row bound to the new correction.
NewIdem(r, t) ==
    [tenant_id |-> r.tenant_id, key |-> r.idempotency_key,
     correction_id |-> t.new_id, payload_hash |-> PayloadHash(r)]

\* mutant: the UPDATE also stamps the target with the time of the change.
ApplyFlipRewrites(rows, t) ==
    IF t.superseded_id # NoId
    THEN [rows EXCEPT ![t.superseded_id].status = "SUPERSEDED",
                      ![t.superseded_id].created_at = t.now]
    ELSE rows

\* mutant: the UPDATE is never issued.
ApplyFlipSkipped(rows, t) == rows

\* UPDATE corrections SET status='SUPERSEDED' WHERE tenant_id=$1 AND correction_id=$2
ApplyFlip(rows, t) ==
    IF t.superseded_id # NoId
    THEN [rows EXCEPT ![t.superseded_id].status = "SUPERSEDED"]
    ELSE rows

\* mutant: the table has no such index.
NoUniqueActiveIndex(rows, r) == FALSE

\* The partial unique index on (tenant_id, subject, field_key) WHERE
\* status='ACTIVE': the INSERT raises when, with the transaction's own UPDATE
\* applied, a committed ACTIVE row of the same field remains.
UniqueActiveViolation(rows, r) ==
    \E id \in DOMAIN rows :
        /\ FieldOf(rows[id]) = FieldOf(r)
        /\ rows[id].status = "ACTIVE"

\* mutant: the statements run outside a transaction, the UPDATE stays.
RolledBackKeepsWrites(rows, written) == written

\* async with conn.transaction(): an exception raised inside the block rolls
\* back every statement of the block, the UPDATE included.
RolledBack(rows, written) == rows

\* The primary key of idempotency, (tenant_id, key).
IdempotencyKeyViolation(r) == IdemLookup(r.tenant_id, r.idempotency_key) # {}

\* ------------------------------------------------------------- responses
Fail(status, code) == [NoResp EXCEPT !.status_code = status, !.code = code]

Replay(existing) ==
    [status_code |-> 200, code |-> "REPLAY",
     correction_id |-> existing.correction_id, status |-> existing.status,
     supersedes |-> existing.supersedes, created_at |-> existing.created_at]

Created(t) ==
    [status_code |-> 201, code |-> "CREATED", correction_id |-> t.new_id,
     status |-> "ACTIVE", supersedes |-> t.superseded_id, created_at |-> t.now]

\* The transaction block is left: with an exception (rollback) or by return.
Finish(p, r) ==
    /\ pc' = [pc EXCEPT ![p] = "done"]
    /\ resp' = [resp EXCEPT ![p] = r]

\* ------------------------------------------------------------ the callers
\* What callers may send. Tenant t1, subject s1: any payload over the input
\* sets, naming as the supersedes target nothing, a correction that exists
\* (of any tenant), or an unknown id. Tenant t2: auto-chained creates on one
\* field. And one payload whose permissions name no reader and no scope.
Requests ==
    {Request("t1", "s1", f, v, "FACT", PermReaders, k, sup) :
        f \in FieldKeys, v \in Values,
        k \in IdemKeys, sup \in DOMAIN corrections \cup {NoId, AbsentId}}
    \cup {Request("t2", "s1", "f1", "v1", "FACT", PermReaders, "k1", NoId)}
    \cup {Request("t1", "s1", "f1", "v1", "FACT", PermNone, "k1", NoId)}

\* What the callers of the read-side checks send: auto-chained creates that
\* differ in class, permissions, field, subject and tenant.
ReadRequests ==
    {Request("t1", "s1", "f1", "v1", "FACT", PermReaders, "k1", NoId),
     Request("t1", "s1", "f1", "v1", "FACT", PermDenied, "k2", NoId),
     Request("t1", "s1", "f1", "v1", "DISCARDABLE", PermReaders, "k2", NoId),
     Request("t1", "s1", "f2", "v1", "FACT", PermReaders, "k2", NoId),
     Request("t1", "s2", "f1", "v1", "FACT", PermReaders, "k2", NoId),
     Request("t2", "s1", "f1", "v1", "FACT", PermReaders, "k1", NoId)}

\* What the callers of the lineage checks send: creates on one field of one
\* tenant under three idempotency keys, two auto-chained and one naming its
\* target, and one naming a target from another field.
LineageRequests ==
    {Request("t1", "s1", "f1", "v1", "FACT", PermReaders, "k1", NoId),
     Request("t1", "s1", "f1", "v1", "FACT", PermReaders, "k2", NoId)}
    \cup {Request("t1", "s1", f, "v1", "FACT", PermReaders, "k3", sup) :
             f \in FieldKeys, sup \in DOMAIN corrections}

\* The bound of the model: requests are accepted, and rows written, while
\* the clock is below MaxClock.
ClockLeft == clock < MaxClock

\* A response is handed to its caller before any handler takes another step.
Running == \A q \in Procs : pc[q] # "done"

\* ghost: a running resubmission stops being undisturbed when another
\* writer acts.
Disturb(p) == [q \in Procs |-> IF q = p THEN retry[q] ELSE FALSE]

\* ------------------------------------------------------- create_correction
\* mutant: the precondition is not checked.
PermissionsNotChecked(r) == TRUE

\* Lines 71-72: perms.get("readers") or perms.get("scopes")
ValidPermissions(r) == r.permissions.readers # {} \/ r.permissions.scopes # {}

\* Lines 69-121: the permissions precondition, the payload hash, the
\* idempotency lookup and its two outcomes (replay, conflict).
Begin(p, r) ==
    /\ ClockLeft
    /\ req' = [req EXCEPT ![p] = r]
    /\ tx' = [tx EXCEPT ![p] = NoTx]
    /\ UNCHANGED <<corrections, idempotency, clock, elsewhere>>
    /\ IF ~ValidPermissions(r)
       THEN Finish(p, Fail(400, "INVALID_REQUEST"))
       ELSE LET idem == IdemLookup(r.tenant_id, r.idempotency_key) IN
            IF idem # {}
            THEN \E i \in idem :
                    IF i.payload_hash # PayloadHash(r)
                    THEN Finish(p, Fail(409, "IDEMPOTENCY_CONFLICT"))
                    ELSE IF i.correction_id \in DOMAIN corrections
                    THEN Finish(p, Replay(corrections[i.correction_id]))
                    ELSE Finish(p, Fail(500, "INTERNAL"))
            ELSE /\ pc' = [pc EXCEPT ![p] = "target"]
                 /\ resp' = [resp EXCEPT ![p] = NoResp]

\* A caller posts a request.
CreateBegin(p, r) ==
    /\ Running
    /\ pc[p] = "idle"
    /\ retry' = Disturb(p)
    /\ Begin(p, r)

\* The caller that got the concurrent-write 409 posts the same request
\* again, at a moment when no other handler is running.
Resubmit(p) ==
    /\ pc[p] = "done"
    /\ resp[p].code = "CONCURRENT_WRITE"
    /\ \A q \in Procs \ {p} : pc[q] = "idle"
    /\ retry' = [retry EXCEPT ![p] = TRUE]
    /\ Begin(p, req[p])

\* The response reaches the caller; the handler is free again.
Return(p) ==
    /\ pc[p] = "done"
    /\ pc' = [pc EXCEPT ![p] = "idle"]
    /\ req' = [req EXCEPT ![p] = NoReq]
    /\ tx' = [tx EXCEPT ![p] = NoTx]
    /\ resp' = [resp EXCEPT ![p] = NoResp]
    /\ retry' = [retry EXCEPT ![p] = FALSE]
    /\ UNCHANGED <<corrections, idempotency, clock, elsewhere>>

\* Lines 123-147: the supersede target, explicit or auto-chained.
ResolveTarget(p) ==
    /\ Running
    /\ pc[p] = "target"
    /\ UNCHANGED <<corrections, idempotency, clock, req, retry, elsewhere>>
    /\ IF req[p].supersedes # NoId
       THEN LET target == TargetLookup(req[p].tenant_id, req[p].supersedes) IN
            IF TargetRejected(target)
            THEN /\ Finish(p, Fail(400, "INVALID_SUPERSEDES"))
                 /\ UNCHANGED tx
            ELSE /\ tx' = [tx EXCEPT ![p].superseded_id = target.correction_id]
                 /\ pc' = [pc EXCEPT ![p] = "write"]
                 /\ UNCHANGED resp
       ELSE \E sid \in (IF ExistingActive(req[p]) = {} THEN {NoId}
                        ELSE ExistingActive(req[p])) :
            /\ tx' = [tx EXCEPT ![p].superseded_id = sid]
            /\ pc' = [pc EXCEPT ![p] = "write"]
            /\ UNCHANGED resp

\* Lines 149-211: the UPDATE of the target row, the INSERT of the new row
\* under the ACTIVE-uniqueness index (UniqueViolationError becomes 409), the
\* INSERT of the idempotency row (a key committed meanwhile raises
\* UniqueViolationError outside the try: 500) and the commit on leaving the
\* transaction block; any exception rolls the whole transaction back.
\* Uncommitted writes are invisible to the other transactions and the row
\* lock the UPDATE takes only makes them wait for this commit, so the three
\* statements and the commit are one step, taken at the commit. (A cycle of
\* such waits is ended by the store, which fails one transaction; its rollback
\* leaves the tables as they were. That 500 is not modelled.)
WriteAndCommit(p) ==
    /\ Running
    /\ pc[p] = "write"
    /\ UNCHANGED <<req, retry, elsewhere>>
    /\ LET t == [tx[p] EXCEPT !.new_id = clock + 1, !.now = clock + 1]
           flipped == ApplyFlip(corrections, t)
       IN
       IF UniqueActiveViolation(flipped, req[p])
       THEN /\ Finish(p, Fail(409, "CONCURRENT_WRITE"))
            /\ corrections' = RolledBack(corrections, flipped)
            /\ UNCHANGED <<idempotency, tx, clock>>
       ELSE IF IdempotencyKeyViolation(req[p])
       THEN /\ Finish(p, Fail(500, "INTERNAL"))
            /\ corrections' = RolledBack(corrections, flipped)
            /\ UNCHANGED <<idempotency, tx, clock>>
       ELSE /\ ClockLeft
            /\ clock' = clock + 1
            /\ tx' = [tx EXCEPT ![p] = t]
            /\ corrections' = flipped @@ (t.new_id :> NewRow(req[p], t))
            /\ idempotency' = idempotency \cup {NewIdem(req[p], t)}
            /\ Finish(p, Created(t))

\* The external revoke: UPDATE corrections SET status='REVOKED' WHERE
\* correction_id=$1, one autocommitted statement.
Revoke(id) ==
    /\ Running
    /\ id \in DOMAIN corrections
    /\ corrections[id].status # "REVOKED"
    /\ corrections' = [corrections EXCEPT ![id].status = "REVOKED"]
    /\ retry' = [q \in Procs |-> FALSE]
    /\ UNCHANGED <<idempotency, clock, pc, req, tx, resp, elsewhere>>

\* ---------------------------------------------------------------- app/db.py
\* The coroutines of the process that call get_pool or close_pool.
Callers == {"c1", "c2", "c3"}

\* _POOL is None
NoPool == 0

\* Line 4, before any call: POOL is the global _POOL; at says where each
\* coroutine is suspended; got is the pool its last get_pool returned;
\* created counts the calls of create_pool that completed, each of which
\* makes a new pool; closed records that close_pool has been called.
NoDb == [POOL |-> NoPool,
         at |-> [c \in Callers |-> "out"],
         got |-> [c \in Callers |-> NoPool],
         created |-> 0,
         closed |-> FALSE]

\* The rest of the state, which app/db.py never touches.
DbOnly ==
    UNCHANGED <<corrections, idempotency, clock, pc, req, tx, resp, retry,
                call, heartbeats>>

\* Lines 7-9 and 14: with _POOL set, return it; with _POOL None, call
\* create_pool and suspend at the await.
GetPoolEnter(c) ==
    /\ db.at[c] = "out"
    /\ IF db.POOL = NoPool
       THEN /\ db.created + Cardinality({x \in Callers : db.at[x] = "create_pool"})
                  < MaxPools
            /\ db' = [db EXCEPT !.at[c] = "create_pool"]
       ELSE db' = [db EXCEPT !.got[c] = db.POOL]
    /\ DbOnly

\* Lines 9-14: create_pool completes with a new pool, which is assigned to
\* _POOL and returned.
GetPoolResume(c) ==
    /\ db.at[c] = "create_pool"
    /\ db' = [db EXCEPT !.at[c] = "out", !.created = db.created + 1,
                        !.POOL = db.created + 1, !.got[c] = db.created + 1]
    /\ DbOnly

\* Lines 18-20: with _POOL set, close it, suspending at the await.
ClosePoolEnter(c) ==
    /\ db.at[c] = "out"
    /\ db' = IF db.POOL # NoPool
             THEN [db EXCEPT !.at[c] = "close", !.closed = TRUE]
             ELSE [db EXCEPT !.closed = TRUE]
    /\ DbOnly

\* Line 21: _POOL = None
ClosePoolResume(c) ==
    /\ db.at[c] = "close"
    /\ db' = [db EXCEPT !.at[c] = "out", !.POOL = NoPool]
    /\ DbOnly

NextPool ==
    \/ \E c \in Callers : GetPoolEnter(c)
    \/ \E c \in Callers : GetPoolResume(c)
    \/ \E c \in Callers : ClosePoolEnter(c)
    \/ \E c \in Callers : ClosePoolResume(c)

\* ---------------------------------------------------------- specification
NoCall == [requester_id |-> "r1", requester_scopes |-> << >>,
           permissions |-> PermNone, result |-> << >>]

\* The ledger before any request.
LedgerInit ==
    /\ corrections = << >>
    /\ idempotency = {}
    /\ clock = 0
    /\ pc = [p \in Procs |-> "idle"]
    /\ req = [p \in Procs |-> NoReq]
    /\ tx = [p \in Procs |-> NoTx]
    /\ resp = [p \in Procs |-> NoResp]
    /\ retry = [p \in Procs |-> FALSE]

Init ==
    /\ LedgerInit
    /\ call = NoCall
    /\ heartbeats = << >>
    /\ db = NoDb

Next ==
    \/ \E p \in Procs : \E r \in Requests : CreateBegin(p, r)
    \/ \E p \in Procs : Resubmit(p)
    \/ \E p \in Procs : Return(p)
    \/ \E p \in Procs : ResolveTarget(p)
    \/ \E p \in Procs : WriteAndCommit(p)
    \/ \E id \in 1..MaxClock : Revoke(id)

Spec == Init /\ [][Next]_vars

\* The same handlers, serving the requests of the read-side checks.
NextReads ==
    \/ \E p \in Procs : \E r \in ReadRequests : CreateBegin(p, r)
    \/ \E p \in Procs : Resubmit(p)
    \/ \E p \in Procs : Return(p)
    \/ \E p \in Procs : ResolveTarget(p)
    \/ \E p \in Procs : WriteAndCommit(p)
    \/ \E id \in 1..MaxClock : Revoke(id)

SpecReads == Init /\ [][NextReads]_vars

SpecPool == Init /\ [][NextPool]_vars

\* The same handlers, serving the requests of the lineage checks.
NextLineage ==
    \/ \E p \in Procs : \E r \in LineageRequests : CreateBegin(p, r)
    \/ \E p \in Procs : Resubmit(p)
    \/ \E p \in Procs : Return(p)
    \/ \E p \in Procs : ResolveTarget(p)
    \/ \E p \in Procs : WriteAndCommit(p)
    \/ \E id \in 1..MaxClock : Revoke(id)

SpecLineage == Init /\ [][NextLineage]_vars

\* --------------------------------------------------- is_allowed, on its own
\* Who asks.
Requesters == {"r1", "r2"}
ScopeNames == {"sc1", "sc2"}
PermissionKeys == {"readers", "scopes", "deny_list"}

\* The dicts is_allowed may be handed: any of the three keys present or not
\* (exclude_none drops a key sent as null), each list empty or not.
PermissionDicts ==
    UNION {{d \in [K -> SUBSET (Requesters \cup ScopeNames)] :
                \A k \in K : d[k] \subseteq (IF k = "scopes" THEN ScopeNames
                                              ELSE Requesters)} :
           K \in SUBSET PermissionKeys}

ScopeLists == {<< >>, <<"sc1">>, <<"sc2", "sc1">>, <<"sc3">>}

\* One call of is_allowed.
IsAllowedCall ==
    /\ call.result = << >>
    /\ call' = [call EXCEPT !.result =
                    <<is_allowed(call.requester_id, call.requester_scopes,
                                 call.permissions)>>]
    /\ UNCHANGED <<corrections, idempotency, clock, pc, req, tx, resp, retry,
                   heartbeats, db>>

InitAllowed ==
    /\ LedgerInit
    /\ heartbeats = << >>
    /\ db = NoDb
    /\ call \in {[requester_id |-> who, requester_scopes |-> sc,
                   permissions |-> d, result |-> << >>] :
                      who \in Requesters, sc \in ScopeLists,
                      d \in PermissionDicts}

NextAllowed == IsAllowedCall

SpecAllowed == InitAllowed /\ [][NextAllowed]_vars

\* ---------------------------------------------------------------- get_facts
\* The requester_scopes query values the requesters send.
ScopeQueries == {NoCsv, <<"sc1">>, <<" sc1 ", "">>, <<" ", "sc2">>}

\* mutant: the query forgets AND status='ACTIVE' AND class='FACT'.
FactsQueryAllRows(rows, t, s) ==
    {id \in DOMAIN rows : rows[id].tenant_id = t /\ rows[id].subject = s}

\* mutant: the SELECT keeps the FACT rows of every status.
FactsQueryAnyStatus(rows, t, s) ==
    {id \in DOMAIN rows :
        /\ rows[id].tenant_id = t
        /\ rows[id].subject = s
        /\ rows[id].class = "FACT"}

\* Lines 235-243: SELECT ... FROM corrections WHERE tenant_id=$1 AND
\* subject...=$2,$3 AND status='ACTIVE' AND class='FACT'
FactsQuery(rows, t, s) ==
    {id \in DOMAIN rows :
        /\ rows[id].tenant_id = t
        /\ rows[id].subject = s
        /\ rows[id].status = "ACTIVE"
        /\ rows[id].class = "FACT"}

\* Lines 251-260
FactItem(row) ==
    [field_key |-> row.field_key, value |-> row.value,
     corrected_at |-> row.created_at, correction_id |-> row.correction_id,
     actor |-> row.actor]

\* mutant: every selected row is returned.
GetFactsUnfiltered(rows, t, s, requester_id, requester_scopes) ==
    {FactItem(rows[id]) : id \in FactsQuery(rows, t, s)}

\* Lines 218-262: the facts of the rows the requester is allowed to read.
\* The query has no ORDER BY; the response is taken as the set of its items.
\* field_keys and q are parsed and not used.
GetFacts(rows, t, s, requester_id, requester_scopes) ==
    LET scopes_list == parse_csv(requester_scopes)
        permitted == {id \in FactsQuery(rows, t, s) :
                        is_allowed(requester_id, scopes_list,
                                   rows[id].permissions)}
    IN {FactItem(rows[id]) : id \in permitted}

\* The field_keys and q query values the requesters send.
FieldKeyQueries == {NoCsv, <<"f1">>, <<"f2", "">>}
TextQueries == {"", "V1"}

\* Lines 217-262 with all the query parameters of the endpoint: field_keys is
\* parsed into field_keys_list (line 231), which is not read again, and q is
\* not read at all.
get_facts(rows, t, s, requester_id, requester_scopes, field_keys, q) ==
    LET field_keys_list == parse_csv(field_keys)
    IN GetFacts(rows, t, s, requester_id, requester_scopes)

\* -------------------------------------------------------------- get_history
\* field_key: str | None = Query(None)
NoField == ""

\* ORDER BY created_at DESC
RECURSIVE SortDesc(_, _)
SortDesc(rows, ids) ==
    IF ids = {} THEN << >>
    ELSE LET top == CHOOSE a \in ids :
                        \A b \in ids : rows[a].created_at >= rows[b].created_at
         IN <<top>> \o SortDesc(rows, ids \ {top})

\* Lines 302-314; superseded_by is never passed and keeps its default.
HistoryItem(row) ==
    [correction_id |-> row.correction_id, field_key |-> row.field_key,
     value |-> row.value, class |-> row.class, status |-> row.status,
     supersedes |-> row.supersedes, superseded_by |-> NoId,
     created_at |-> row.created_at, actor |-> row.actor]

\* mutant: include_revoked is not looked at, REVOKED rows are always left out.
GetHistoryNeverRevoked(rows, t, s, f, include_revoked) ==
    LET ids == {id \in DOMAIN rows :
                    /\ rows[id].tenant_id = t
                    /\ rows[id].subject = s
                    /\ rows[id].status # "REVOKED"
                    /\ (f = NoField \/ rows[id].field_key = f)}
        order == SortDesc(rows, ids)
    IN [n \in 1..Len(order) |-> HistoryItem(rows[order[n]])]

\* mutant: the query forgets the subject.
GetHistoryAnySubject(rows, t, s, f, include_revoked) ==
    LET ids == {id \in DOMAIN rows :
                    /\ rows[id].tenant_id = t
                    /\ (include_revoked \/ rows[id].status # "REVOKED")
                    /\ (f = NoField \/ rows[id].field_key = f)}
        order == SortDesc(rows, ids)
    IN [n \in 1..Len(order) |-> HistoryItem(rows[order[n]])]

\* Lines 284-316: the subject's rows of the tenant, without the REVOKED ones
\* unless include_revoked, narrowed to field_key if given, newest first. The
\* requester's id and scopes are read and not used.
GetHistory(rows, t, s, f, include_revoked) ==
    LET ids == {id \in DOMAIN rows :
                    /\ rows[id].tenant_id = t
                    /\ rows[id].subject = s
                    /\ (include_revoked \/ rows[id].status # "REVOKED")
                    /\ (f = NoField \/ rows[id].field_key = f)}
        order == SortDesc(rows, ids)
    IN [n \in 1..Len(order) |-> HistoryItem(rows[order[n]])]

\* ------------------------------------------- app/routes/enforcement.py
\* os.getenv("STET_HEARTBEAT_INTERVAL_SECONDS", "60") and
\* os.getenv("STET_HEARTBEAT_GRACE_MULTIPLIER", "2")
heartbeat_interval_seconds == 60
heartbeat_grace_multiplier == 2
threshold_seconds == heartbeat_interval_seconds * heartbeat_grace_multiplier

\* The systems that report, per tenant, and the version they report.
Reporters == {<<"t1", "sysA">>, <<"t1", "sysB">>, <<"t2", "sysA">>}
Versions == {0}

\* The system_id query values: left out (None), sent empty, or a name; sysC
\* never reports.
NoSystem == << >>
SystemQueries == {NoSystem, <<"">>, <<"sysA">>, <<"sysB">>, <<"sysC">>}

\* enforced_correction_version=None, reported_at=None
NoTime == -1

\* Lines 66-75: service is a literal, version defaults to "dev".
origin == [service |-> "stet-api", environment |-> "local", version |-> "dev"]

\* The column default of enforcement_heartbeats.reported_at: the INSERT names
\* no reported_at, the store stamps the row with its current time.
ReportedAtDefault == clock

\* mutant: the INSERT is an upsert that keeps one row per (tenant, system).
HeartbeatUpsert(t, system_id, version) ==
    /\ Len(heartbeats) < MaxBeats
    /\ heartbeats' = Append(SelectSeq(heartbeats,
                                LAMBDA row : ~(/\ row.tenant_id = t
                                               /\ row.system_id = system_id)),
                            [tenant_id |-> t, system_id |-> system_id,
                             enforced_correction_version |-> version,
                             reported_at |-> clock])
    /\ UNCHANGED <<corrections, idempotency, clock, pc, req, tx, resp, retry,
                   call, db>>

\* Lines 61-96: POST /v1/enforcement/heartbeat.
Heartbeat(t, system_id, version) ==
    /\ Len(heartbeats) < MaxBeats
    /\ ~(origin.service = "" \/ origin.version = "")
    /\ heartbeats' = Append(heartbeats,
                            [tenant_id |-> t, system_id |-> system_id,
                             enforced_correction_version |-> version,
                             reported_at |-> ReportedAtDefault])
    /\ UNCHANGED <<corrections, idempotency, clock, pc, req, tx, resp, retry,
                   call, db>>

\* Time passes.
Tick(seconds) ==
    /\ clock + seconds <= MaxTime
    /\ clock' = clock + seconds
    /\ UNCHANGED <<corrections, idempotency, pc, req, tx, resp, retry,
                   call, heartbeats, db>>

\* mutant: a heartbeat exactly threshold seconds old is STALE.
evaluate_status_strict(now, reported_at, threshold) ==
    IF now - reported_at < threshold THEN "OK" ELSE "STALE"

\* Lines 53-59: _evaluate_status
evaluate_status(now, reported_at, threshold) ==
    LET age_seconds == now - reported_at
    IN IF age_seconds <= threshold THEN "OK" ELSE "STALE"

\* ORDER BY reported_at DESC LIMIT 1 over the rows numbered in ns.
LatestOf(rows, ns) ==
    rows[CHOOSE n \in ns : \A m \in ns : rows[n].reported_at >= rows[m].reported_at]

EnforcementStatusItem(row, now) ==
    [system_id |-> row.system_id,
     status |-> evaluate_status(now, row.reported_at, threshold_seconds),
     enforced_correction_version |-> row.enforced_correction_version,
     reported_at |-> row.reported_at]

\* Lines 98-171: GET /v1/enforcement/status, the systems of the response.
\* now is read (line 105) before the query runs. "if system_id:" takes an
\* empty string like a parameter left out. The items are taken as a set.
EvaluateStatus(rows, t, system_id, now) ==
    IF system_id # NoSystem /\ system_id[1] # ""
    THEN LET ns == {n \in 1..Len(rows) : /\ rows[n].tenant_id = t
                                         /\ rows[n].system_id = system_id[1]}
         IN IF ns # {}
            THEN {EnforcementStatusItem(LatestOf(rows, ns), now)}
            ELSE {[system_id |-> system_id[1], status |-> "MISSING",
                   enforced_correction_version |-> NoTime,
                   reported_at |-> NoTime]}
    ELSE LET known == {rows[n].system_id : n \in
                          {m \in 1..Len(rows) : rows[m].tenant_id = t}}
         IN {EnforcementStatusItem(
                LatestOf(rows, {n \in 1..Len(rows) :
                                   /\ rows[n].tenant_id = t
                                   /\ rows[n].system_id = sys}), now) :
             sys \in known}

\* Lines 244-251: counts[system.status] += 1 over the evaluated systems.
StatusCount(systems, status) ==
    Cardinality({item \in systems : item.status = status})

\* mutant: STALE systems do not escalate.
EvaluateEscalationStaleIgnored(rows, t, system_id, now) ==
    LET systems == EvaluateStatus(rows, t, system_id, now)
    IN [tenant_id |-> t, evaluated_at |-> now,
        escalation |-> IF StatusCount(systems, "MISSING") > 0
                       THEN "CRITICAL" ELSE "NONE",
        summary |-> [total_systems |-> Cardinality(systems),
                     ok |-> StatusCount(systems, "OK"),
                     stale |-> StatusCount(systems, "STALE"),
                     missing |-> StatusCount(systems, "MISSING")],
        affected_systems |-> {item \in systems : item.status # "OK"}]

\* Lines 173-277: GET /v1/enforcement/escalation. Lines 184-241 repeat the
\* evaluation of status with the same now, threshold and queries.
EvaluateEscalation(rows, t, system_id, now) ==
    LET systems == EvaluateStatus(rows, t, system_id, now)
        escalation_value ==
            IF StatusCount(systems, "MISSING") > 0 THEN "CRITICAL"
            ELSE IF StatusCount(systems, "STALE") > 0 THEN "WARN"
            ELSE "NONE"
    IN [tenant_id |-> t, evaluated_at |-> now,
        escalation |-> escalation_value,
        summary |-> [total_systems |-> Cardinality(systems),
                     ok |-> StatusCount(systems, "OK"),
                     stale |-> StatusCount(systems, "STALE"),
                     missing |-> StatusCount(systems, "MISSING")],
        affected_systems |-> {item \in systems : item.status # "OK"}]

TickSeconds == {60, 61}

NextEnforcement ==
    \/ \E r \in Reporters : \E v \in Versions : Heartbeat(r[1], r[2], v)
    \/ \E d \in TickSeconds : Tick(d)

SpecEnforcement == Init /\ [][NextEnforcement]_vars

\* ------------------------------------------------------------ properties

\* p's handler takes the step that receives a request.
Starts(p) == pc[p] \in {"idle", "done"} /\ pc'[p] \in {"target", "done"}

\* p's handler takes the step that produces its response.
Responds(p) == pc'[p] = "done" /\ (pc[p] # "done" \/ resp'[p] # resp[p] \/ retry'[p] # retry[p])

StoreUnchanged == corrections' = corrections /\ idempotency' = idempotency

\* C1: in every committed state of the store, each (tenant_id, subject,
\* field_key) has at most one correction with status ACTIVE, whatever the
\* interleaving of creates, auto-chained or with an explicit target.
C1_OneActivePerField ==
    \A a \in DOMAIN corrections : \A b \in DOMAIN corrections :
        ( /\ FieldOf(corrections[a]) = FieldOf(corrections[b])
          /\ corrections[a].status = "ACTIVE"
          /\ corrections[b].status = "ACTIVE" ) => a = b

\* Two creates raced on one field: one committed its ACTIVE row, the other
\* was turned away by the unique index.
C1_Witness ==
    \E p \in Procs :
        /\ pc[p] = "done"
        /\ resp[p].code = "CONCURRENT_WRITE"
        /\ \E id \in DOMAIN corrections :
            /\ FieldOf(corrections[id]) = FieldOf(req[p])
            /\ corrections[id].status = "ACTIVE"

\* C2: a create that arrives when its (tenant, idempotency_key) is recorded
\* with the same payload hash answers 200 with the recorded correction_id and
\* changes neither table, whatever happened since the first create.
C2_IdempotentReplay ==
    [][\A p \in Procs :
        \A i \in idempotency :
            ( /\ Starts(p)
              /\ ValidPermissions(req'[p])
              /\ i.tenant_id = req'[p].tenant_id
              /\ i.key = req'[p].idempotency_key
              /\ i.payload_hash = PayloadHash(req'[p]) )
            => ( /\ pc'[p] = "done"
                 /\ resp'[p].status_code = 200
                 /\ resp'[p].correction_id = i.correction_id
                 /\ StoreUnchanged )]_vars

\* A replay was answered for a correction that has since been superseded.
C2_Witness ==
    \E p \in Procs :
        /\ pc[p] = "done"
        /\ resp[p].status_code = 200
        /\ resp[p].status = "SUPERSEDED"
        /\ resp[p].correction_id \in DOMAIN corrections

\* C3: a create (here an auto-chained one, which no other check can turn
\* away) whose (tenant, idempotency_key) is recorded for a different payload
\* is answered 409, also when the other create committed while this one was
\* running.
C3_IdempotencyConflict ==
    \A p \in Procs :
        ( /\ pc[p] = "done"
          /\ ValidPermissions(req[p])
          /\ req[p].supersedes = NoId
          /\ \E i \in idempotency :
                /\ i.tenant_id = req[p].tenant_id
                /\ i.key = req[p].idempotency_key
                /\ i.payload_hash # PayloadHash(req[p]) )
        => resp[p].status_code = 409

\* C4: auto-supersede. The lookup of a create without explicit supersedes
\* finds the field's ACTIVE correction, or nothing when there is none. When
\* such a create succeeds, the new row is ACTIVE on its field and both the row
\* and the response carry the target found (null when none was); the target
\* is SUPERSEDED afterwards, and a correction that was ACTIVE on the field at
\* the commit is that target. After a first create on a field and a second
\* that superseded it, the field's history is the ACTIVE row, then the
\* SUPERSEDED one.
C4_AutoSupersede ==
    [][\A p \in Procs :
        LET r == req[p]
            active == {id \in DOMAIN corrections :
                          /\ corrections[id].tenant_id = r.tenant_id
                          /\ corrections[id].subject = r.subject
                          /\ corrections[id].field_key = r.field_key
                          /\ corrections[id].status = "ACTIVE"}
            x == tx[p].superseded_id
            n == resp'[p].correction_id
        IN
        /\ ( /\ pc[p] = "target"
             /\ pc'[p] = "write"
             /\ r.supersedes = NoId )
           => IF active = {} THEN tx'[p].superseded_id = NoId
              ELSE tx'[p].superseded_id \in active
        /\ ( /\ pc[p] = "write"
             /\ pc'[p] = "done"
             /\ resp'[p].status_code = 201
             /\ r.supersedes = NoId )
           => /\ n \in DOMAIN corrections' \ DOMAIN corrections
              /\ corrections'[n].status = "ACTIVE"
              /\ FieldOf(corrections'[n]) = FieldOf(r)
              /\ corrections'[n].supersedes = x
              /\ resp'[p].supersedes = x
              /\ resp'[p].status = "ACTIVE"
              /\ active \subseteq {x}
              /\ x # NoId => corrections'[x].status = "SUPERSEDED"
              /\ ( /\ x # NoId
                   /\ corrections[x].supersedes = NoId
                   /\ {id \in DOMAIN corrections' :
                         FieldOf(corrections'[id]) = FieldOf(r)} = {x, n} )
                 => LET h == GetHistory(corrections', r.tenant_id, r.subject,
                                        r.field_key, FALSE)
                    IN /\ Len(h) = 2
                       /\ h[1].correction_id = n /\ h[1].status = "ACTIVE"
                       /\ h[2].correction_id = x /\ h[2].status = "SUPERSEDED"
      ]_vars

\* A second auto-chained create has just superseded the first one on a field.
C4_Witness ==
    \E p \in Procs :
        /\ pc[p] = "done"
        /\ resp[p].status_code = 201
        /\ req[p].supersedes = NoId
        /\ resp[p].supersedes \in DOMAIN corrections
        /\ corrections[resp[p].supersedes].status = "SUPERSEDED"
        /\ corrections[resp[p].supersedes].supersedes = NoId
        /\ Len(GetHistory(corrections, req[p].tenant_id, req[p].subject,
                          req[p].field_key, FALSE)) = 2

C7_MissingTargetNotFound ==
    \A p \in Procs :
        ( /\ pc[p] = "done"
          /\ ValidPermissions(req[p])
          /\ IdemLookup(req[p].tenant_id, req[p].idempotency_key) = {}
          /\ req[p].supersedes # NoId
          /\ TargetLookup(req[p].tenant_id, req[p].supersedes) = NoRow )
        => resp[p].status_code = 404

\* C8: the step on which a create returns 201 adds exactly one correction
\* row, ACTIVE, and exactly one idempotency row bound to that row's id and to
\* the payload hash, and changes at most one existing row, from ACTIVE to
\* SUPERSEDED and in nothing else; every other row is left as it was.
C8_CreateFrame ==
    [][\A p \in Procs :
        (Responds(p) /\ resp'[p].status_code = 201)
        => LET n == resp'[p].correction_id
               changed == {id \in DOMAIN corrections :
                              corrections'[id] # corrections[id]}
           IN  /\ n \notin DOMAIN corrections
               /\ DOMAIN corrections' = DOMAIN corrections \cup {n}
               /\ corrections'[n].status = "ACTIVE"
               /\ \E i \in idempotency' \ idempotency :
                     /\ idempotency' = idempotency \cup {i}
                     /\ i.correction_id = n
                     /\ i.payload_hash = PayloadHash(req[p])
               /\ Cardinality(changed) <= 1
               /\ \A id \in changed :
                     /\ corrections[id].status = "ACTIVE"
                     /\ corrections'[id]
                          = [corrections[id] EXCEPT !.status = "SUPERSEDED"]]_vars

\* C9: a step of a create that answers 400, 404 or 409, and every step of a
\* create before its answer, leaves the corrections and idempotency tables as
\* they were: the status flip executed before a rejected insert is undone.
C9_FailedCreateLeavesStore ==
    [][\A p \in Procs :
        /\ (Responds(p) /\ resp'[p].status_code \in {400, 404, 409})
              => StoreUnchanged
        /\ (pc'[p] # pc[p] /\ pc'[p] \in {"target", "write"})
              => StoreUnchanged]_vars

\* A create was answered 409 by the uniqueness constraint after its UPDATE had
\* changed the status of its target, which has its former status again.
C9_Witness ==
    \E p \in Procs :
        /\ pc[p] = "done"
        /\ resp[p].code = "CONCURRENT_WRITE"
        /\ tx[p].superseded_id \in DOMAIN corrections
        /\ corrections[tx[p].superseded_id].status # "SUPERSEDED"

C11_ReplayOriginalResponse ==
    \A p \in Procs :
        (pc[p] = "done" /\ resp[p].status_code = 200)
        => \E id \in DOMAIN corrections :
              /\ resp[p].correction_id = id
              /\ resp[p].status = "ACTIVE"
              /\ resp[p].supersedes = corrections[id].supersedes
              /\ resp[p].created_at = corrections[id].created_at

\* C12: a create whose permissions name no reader and no scope is answered
\* 400 on its first step, which touches neither table; and every stored
\* correction names a reader or a scope.
C12_PermissionsRequired ==
    [][/\ \A p \in Procs :
            ( /\ Starts(p)
              /\ req'[p].permissions.readers = {}
              /\ req'[p].permissions.scopes = {} )
            => ( /\ pc'[p] = "done"
                 /\ resp'[p].status_code = 400
                 /\ StoreUnchanged )
       /\ \A id \in DOMAIN corrections' :
            \/ corrections'[id].permissions.readers # {}
            \/ corrections'[id].permissions.scopes # {}]_vars

\* A create without readers and scopes was turned away while the tenant
\* already held a correction.
C12_Witness ==
    \E p \in Procs :
        /\ pc[p] = "done"
        /\ resp[p].code = "INVALID_REQUEST"
        /\ req[p].permissions.readers = {}
        /\ req[p].permissions.scopes = {}
        /\ \E id \in DOMAIN corrections :
              corrections[id].tenant_id = req[p].tenant_id

\* C13: whoever asks, for whatever tenant and subject, every fact GetFacts
\* returns is a stored correction with status ACTIVE and class FACT.
C13_FactsActiveFactOnly ==
    \A t \in Tenants : \A s \in Subjects :
    \A who \in Requesters : \A sc \in ScopeQueries :
        \A item \in GetFacts(corrections, t, s, who, sc) :
            /\ item.correction_id \in DOMAIN corrections
            /\ corrections[item.correction_id].status = "ACTIVE"
            /\ corrections[item.correction_id].class = "FACT"

\* The subject holds a revoked correction and an ACTIVE DISCARDABLE one, and
\* a reader of both gets no fact.
C13_Witness ==
    /\ \E id \in DOMAIN corrections :
          /\ FieldOf(corrections[id]) = <<"t1", "s1", "f1">>
          /\ corrections[id].status = "REVOKED"
          /\ "r1" \in corrections[id].permissions.readers
          /\ corrections[id].permissions.deny_list = {}
    /\ \E id \in DOMAIN corrections :
          /\ FieldOf(corrections[id]) = <<"t1", "s1", "f1">>
          /\ corrections[id].status = "ACTIVE"
          /\ corrections[id].class = "DISCARDABLE"
    /\ GetFacts(corrections, "t1", "s1", "r1", NoCsv) = {}

\* C14: GetFacts returns an ACTIVE FACT correction of the subject to a
\* requester exactly when the requester is not on its deny_list and is one of
\* its readers or presents one of its scopes.
C14_FactsPermissionFilter ==
    \A t \in Tenants : \A s \in Subjects :
    \A who \in Requesters : \A sc \in ScopeQueries :
        \A id \in DOMAIN corrections :
            LET perms == corrections[id].permissions
                presented == {"sc1", "sc2"} \cap
                             {strip(sc[n]) : n \in 1..Len(sc)}
                permitted == /\ who \notin perms.deny_list
                             /\ \/ who \in perms.readers
                                \/ presented \cap perms.scopes # {}
                returned == \E item \in GetFacts(corrections, t, s, who, sc) :
                                item.correction_id = id
            IN /\ returned => permitted
               /\ ( /\ permitted
                    /\ FieldOf(corrections[id]) = <<t, s, corrections[id].field_key>>
                    /\ corrections[id].status = "ACTIVE"
                    /\ corrections[id].class = "FACT" ) => returned

\* An ACTIVE FACT names r1 as reader and on its deny_list: r1 does not get
\* it, with or without its scope, and r2 gets it by scope.
C14_Witness ==
    \E id \in DOMAIN corrections :
        /\ corrections[id].status = "ACTIVE"
        /\ corrections[id].class = "FACT"
        /\ corrections[id].permissions = PermDenied
        /\ GetFacts(corrections, "t1", "s1", "r1", <<"sc1">>) = {}
        /\ GetFacts(corrections, "t1", "s1", "r2", <<" sc1 ", "">>)
              = {FactItem(corrections[id])}

\* C15: is_allowed answers False if the requester is on the deny_list; else
\* True if the requester is a reader; else True if a requester scope is one of
\* the scopes; else False; a key that is absent or empty counts as no entries.
C15_IsAllowedFirstMatch ==
    call.result # << >> =>
        LET d == call.permissions
            entries(k) == IF k \in DOMAIN d THEN d[k] ELSE {}
            presented == {call.requester_scopes[n] :
                            n \in 1..Len(call.requester_scopes)}
        IN call.result[1] =
             CASE call.requester_id \in entries("deny_list") -> FALSE
               [] call.requester_id \notin entries("deny_list")
                  /\ call.requester_id \in entries("readers") -> TRUE
               [] call.requester_id \notin entries("deny_list")
                  /\ call.requester_id \notin entries("readers")
                  /\ presented \cap entries("scopes") # {} -> TRUE
               [] OTHER -> FALSE

\* is_allowed refused a requester who is a reader, presents a listed scope
\* and is on the deny_list.
C15_Witness ==
    /\ call.result = <<FALSE>>
    /\ "deny_list" \in DOMAIN call.permissions
    /\ "readers" \in DOMAIN call.permissions
    /\ "scopes" \in DOMAIN call.permissions
    /\ call.requester_id \in call.permissions["deny_list"]
    /\ call.requester_id \in call.permissions["readers"]
    /\ \E n \in 1..Len(call.requester_scopes) :
          call.requester_scopes[n] \in call.permissions["scopes"]

\* The correction ids of a history response.
HistoryIds(history) == {history[n].correction_id : n \in 1..Len(history)}

\* C16: without include_revoked GetHistory returns exactly the subject's
\* corrections whose status is not REVOKED, of either class, ACTIVE and
\* SUPERSEDED alike; with include_revoked it returns all of the subject's
\* corrections, the REVOKED ones with status REVOKED.
C16_HistoryIncludeRevoked ==
    \A t \in Tenants : \A s \in Subjects :
        LET mine == {id \in DOMAIN corrections :
                        /\ corrections[id].tenant_id = t
                        /\ corrections[id].subject = s}
            without == GetHistory(corrections, t, s, NoField, FALSE)
            with == GetHistory(corrections, t, s, NoField, TRUE)
        IN /\ HistoryIds(without)
                = {id \in mine : corrections[id].status # "REVOKED"}
           /\ HistoryIds(with) = mine
           /\ Len(with) = Cardinality(mine)
           /\ \A n \in 1..Len(with) :
                with[n].status = corrections[with[n].correction_id].status

\* The subject holds a revoked correction and a DISCARDABLE one: the first
\* appears only with include_revoked, the second in both responses.
C16_Witness ==
    LET without == GetHistory(corrections, "t1", "s1", NoField, FALSE)
        with == GetHistory(corrections, "t1", "s1", NoField, TRUE)
    IN /\ Len(with) = 2
       /\ Len(without) = 1
       /\ without[1].class = "DISCARDABLE"
       /\ \E n \in 1..2 : with[n].status = "REVOKED"

\* C17: whoever asks, every correction version GetHistory returns is one the
\* requester is allowed to read by that version's own permissions.
C17_HistoryPermissionFilter ==
    \A t \in Tenants : \A s \in Subjects :
    \A who \in Requesters : \A sc \in ScopeQueries :
        \A id \in HistoryIds(GetHistory(corrections, t, s, NoField, FALSE)) :
            is_allowed(who, parse_csv(sc), corrections[id].permissions)

\* C18: for every item X of a history response, superseded_by is the id of a
\* returned item whose supersedes is X's id, and is empty when no returned
\* item supersedes X.
C18_HistorySupersededBy ==
    \A t \in Tenants : \A s \in Subjects : \A inc \in BOOLEAN :
        LET history == GetHistory(corrections, t, s, NoField, inc)
        IN \A n \in 1..Len(history) :
              LET successors == {history[m].correction_id : m \in
                                   {k \in 1..Len(history) :
                                      history[k].supersedes
                                        = history[n].correction_id}}
              IN IF successors = {}
                 THEN history[n].superseded_by = NoId
                 ELSE history[n].superseded_by \in successors

\* C19: for every tenant T and subject S, whoever asks, GetFacts and
\* GetHistory return only corrections stored with tenant T and subject S.
C19_ReadIsolation ==
    \A t \in Tenants : \A s \in Subjects :
        /\ \A who \in Requesters : \A sc \in ScopeQueries :
             \A item \in GetFacts(corrections, t, s, who, sc) :
                /\ corrections[item.correction_id].tenant_id = t
                /\ corrections[item.correction_id].subject = s
        /\ \A f \in FieldKeys \cup {NoField} : \A inc \in BOOLEAN :
             \A id \in HistoryIds(GetHistory(corrections, t, s, f, inc)) :
                /\ corrections[id].tenant_id = t
                /\ corrections[id].subject = s

\* Tenant t1 holds ACTIVE facts of subjects s1 and s2 and tenant t2 one of
\* s1; a reader of all three gets one fact for (t1, s1) and one history item
\* for (t1, s2).
C19_Witness ==
    /\ \E a \in DOMAIN corrections : \E b \in DOMAIN corrections :
       \E c \in DOMAIN corrections :
          /\ FieldOf(corrections[a]) = <<"t1", "s1", "f1">>
          /\ FieldOf(corrections[b]) = <<"t1", "s2", "f1">>
          /\ FieldOf(corrections[c]) = <<"t2", "s1", "f1">>
          /\ \A id \in {a, b, c} :
                /\ corrections[id].status = "ACTIVE"
                /\ corrections[id].class = "FACT"
                /\ corrections[id].permissions = PermReaders
    /\ Cardinality(GetFacts(corrections, "t1", "s1", "r1", NoCsv)) = 1
    /\ Len(GetHistory(corrections, "t1", "s2", NoField, TRUE)) = 1

\* C20: the status of a named system, for any reading of the clock made so
\* far, is one entry for that system: MISSING when the (tenant, system) has
\* no heartbeat; else OK when now minus the largest reported_at of its
\* heartbeats is at most interval times multiplier, and STALE when greater.
C20_EvaluateStatusNamed ==
    \A t \in Tenants : \A q \in SystemQueries : \A now \in 0..clock :
        (q # NoSystem /\ q[1] # "") =>
            LET beats == {heartbeats[n].reported_at : n \in
                            {m \in 1..Len(heartbeats) :
                                /\ heartbeats[m].tenant_id = t
                                /\ heartbeats[m].system_id = q[1]}}
                systems == EvaluateStatus(heartbeats, t, q, now)
            IN /\ Cardinality(systems) = 1
               /\ \A item \in systems :
                    /\ item.system_id = q[1]
                    /\ beats = {} => item.status = "MISSING"
                    /\ beats # {} =>
                         \E last \in beats :
                            /\ \A b \in beats : b <= last
                            /\ item.reported_at = last
                            /\ (now - last <= 120) => item.status = "OK"
                            /\ (now - last > 120) => item.status = "STALE"

\* sysA of t1 reported twice; read now, its older heartbeat is past the
\* threshold and its newer one exactly at it: the status is OK. sysB, whose
\* only heartbeat is older than that, is STALE, and sysA of t2 is MISSING.
C20_Witness ==
    /\ \E n \in 1..Len(heartbeats) : \E m \in 1..Len(heartbeats) :
          /\ heartbeats[n].tenant_id = "t1" /\ heartbeats[n].system_id = "sysA"
          /\ heartbeats[m].tenant_id = "t1" /\ heartbeats[m].system_id = "sysA"
          /\ clock - heartbeats[n].reported_at > 120
          /\ clock - heartbeats[m].reported_at = 120
    /\ \A item \in EvaluateStatus(heartbeats, "t1", <<"sysA">>, clock) :
          item.status = "OK"
    /\ \E item \in EvaluateStatus(heartbeats, "t1", <<"sysB">>, clock) :
          item.status = "STALE" /\ clock - item.reported_at > 120
    /\ \E item \in EvaluateStatus(heartbeats, "t2", <<"sysA">>, clock) :
          item.status = "MISSING"

\* C21: for every tenant, system_id query and clock reading, the escalation
\* is CRITICAL if an evaluated system is MISSING, else WARN if one is STALE,
\* else NONE; affected_systems are the evaluated entries that are not OK; and
\* the summary's ok, stale and missing add up to total_systems, the number of
\* evaluated entries.
C21_Escalation ==
    \A t \in Tenants : \A q \in SystemQueries : \A now \in 0..clock :
        LET systems == EvaluateStatus(heartbeats, t, q, now)
            e == EvaluateEscalation(heartbeats, t, q, now)
            some(status) == \E item \in systems : item.status = status
        IN /\ some("MISSING") => e.escalation = "CRITICAL"
           /\ (~some("MISSING") /\ some("STALE")) => e.escalation = "WARN"
           /\ (~some("MISSING") /\ ~some("STALE")) => e.escalation = "NONE"
           /\ \A item \in systems :
                item \in e.affected_systems <=> item.status \in {"STALE", "MISSING"}
           /\ e.affected_systems \subseteq systems
           /\ e.summary.total_systems = Cardinality(systems)
           /\ e.summary.ok + e.summary.stale + e.summary.missing
                = e.summary.total_systems

\* Tenant t1 has one system OK and one STALE: tenant-wide the escalation is
\* WARN with one affected system of two; asked for sysC it is CRITICAL.
C21_Witness ==
    LET wide == EvaluateEscalation(heartbeats, "t1", NoSystem, clock)
        named == EvaluateEscalation(heartbeats, "t1", <<"sysC">>, clock)
    IN /\ wide.escalation = "WARN"
       /\ wide.summary = [total_systems |-> 2, ok |-> 1, stale |-> 1,
                          missing |-> 0]
       /\ Cardinality(wide.affected_systems) = 1
       /\ named.escalation = "CRITICAL"
       /\ named.summary.missing = 1

\* C22: every step leaves each existing heartbeat row as it was; a step that
\* changes the table is a heartbeat that appends exactly one row, stamped with
\* the current time; and a (tenant, system) with a heartbeat is not MISSING
\* for any clock reading, named or tenant-wide.
C22_HeartbeatsAppendOnly ==
    [][/\ Len(heartbeats') >= Len(heartbeats)
       /\ \A n \in 1..Len(heartbeats) : heartbeats'[n] = heartbeats[n]
       /\ heartbeats' # heartbeats =>
             /\ Len(heartbeats') = Len(heartbeats) + 1
             /\ heartbeats'[Len(heartbeats')].reported_at = clock
       /\ \A n \in 1..Len(heartbeats) : \A now \in 0..clock' :
             LET t == heartbeats[n].tenant_id
                 sys == heartbeats[n].system_id
             IN /\ \A item \in EvaluateStatus(heartbeats', t, <<sys>>, now) :
                      item.system_id = sys /\ item.status \in {"OK", "STALE"}
                /\ \E item \in EvaluateStatus(heartbeats', t, NoSystem, now) :
                      item.system_id = sys /\ item.status \in {"OK", "STALE"}]_vars

\* A system has reported three times, at different times, and all three rows
\* are in the table.
C22_Witness ==
    /\ Len(heartbeats) = 3
    /\ \A n \in 1..3 : heartbeats[n].tenant_id = "t1"
                       /\ heartbeats[n].system_id = "sysA"
    /\ heartbeats[1].reported_at < heartbeats[2].reported_at
    /\ heartbeats[2].reported_at < heartbeats[3].reported_at

\* C23: until close_pool is called, create_pool has run at most once and all
\* the callers get_pool has returned to hold the same pool.
C23_PoolCreatedOnce ==
    ~db.closed =>
        /\ db.created <= 1
        /\ \A a \in Callers : \A b \in Callers :
              (db.got[a] # NoPool /\ db.got[b] # NoPool) => db.got[a] = db.got[b]

\* C24: when GetFacts is called with a field-key allow-list, every fact it
\* returns has a field_key of that list.
C24_FactsFieldKeyFilter ==
    \A t \in Tenants : \A s \in Subjects : \A who \in Requesters :
    \A fk \in FieldKeyQueries : \A q \in TextQueries :
        LET allowed == {strip(fk[n]) : n \in 1..Len(fk)} \ {""}
        IN allowed # {} =>
              \A item \in get_facts(corrections, t, s, who, NoCsv, fk, q) :
                  item.field_key \in allowed

\* C25: on every step each stored correction stays stored and keeps
\* everything but its status, and each idempotency record stays as it is,
\* with no second record added for its (tenant, key).
C25_CorrectionsImmutable ==
    [][/\ \A id \in DOMAIN corrections :
            /\ id \in DOMAIN corrections'
            /\ corrections'[id] =
                 [corrections[id] EXCEPT !.status = corrections'[id].status]
       /\ idempotency \subseteq idempotency'
       /\ \A i \in idempotency' \ idempotency : \A j \in idempotency :
            ~(i.tenant_id = j.tenant_id /\ i.key = j.key)]_vars

\* A correction has been superseded by a later one and its create has then
\* been replayed: the replay answers with the row's first created_at.
C25_Witness ==
    \E p \in Procs : \E b \in DOMAIN corrections :
        /\ pc[p] = "done"
        /\ resp[p].status_code = 200
        /\ resp[p].status = "SUPERSEDED"
        /\ corrections[b].supersedes = resp[p].correction_id
        /\ corrections[b].status = "ACTIVE"
        /\ resp[p].created_at < corrections[b].created_at
        /\ Cardinality(idempotency) = 2

\* C26: a step on which a create commits changes the status of an existing
\* correction only from ACTIVE to SUPERSEDED; and whatever the step, a status
\* becomes SUPERSEDED only from ACTIVE.
C26_OnlyActiveSuperseded ==
    [][\A id \in DOMAIN corrections :
        /\ ( /\ clock' # clock
             /\ corrections'[id].status # corrections[id].status )
           => ( /\ corrections[id].status = "ACTIVE"
                /\ corrections'[id].status = "SUPERSEDED" )
        /\ ( /\ corrections'[id].status = "SUPERSEDED"
             /\ corrections[id].status # "SUPERSEDED" )
           => corrections[id].status = "ACTIVE"]_vars

C28_IdempotencyBound ==
    /\ \A i \in idempotency :
        /\ i.correction_id \in DOMAIN corrections
        /\ corrections[i.correction_id].tenant_id = i.tenant_id
        /\ corrections[i.correction_id].idempotency_key = i.key
    /\ \A i \in idempotency : \A j \in idempotency :
        (i.tenant_id = j.tenant_id /\ i.key = j.key) => i = j
    /\ \A id \in DOMAIN corrections :
        Cardinality({i \in idempotency : i.correction_id = id}) = 1

\* C28 witness: a replay has been answered from its record while a second
\* correction, superseding the replayed one, holds a record of its own.
C28_Witness ==
    \E p \in Procs : \E b \in DOMAIN corrections :
        /\ pc[p] = "done"
        /\ resp[p].code = "REPLAY"
        /\ corrections[b].supersedes = resp[p].correction_id
        /\ Cardinality(idempotency) = Cardinality(DOMAIN corrections)
        /\ Cardinality(DOMAIN corrections) >= 2

\* Some requester, under some scopes, gets a fact of field f of (t, s).
FieldVisible(rows, t, s, f) ==
    \E who \in Requesters : \E sc \in ScopeQueries :
        \E item \in GetFacts(rows, t, s, who, sc) : item.field_key = f

\* C29: on the step that commits a successful create of a DISCARDABLE
\* correction, every ACTIVE FACT of its (subject, field_key) becomes SUPERSEDED
\* and the field is in no requester's GetFacts afterwards; and a field that no
\* requester sees becomes visible only on a step that stores a new FACT
\* correction for it.
C29_DiscardableHidesFact ==
    [][/\ \A p \in Procs :
            ( /\ pc[p] = "write"
              /\ pc'[p] = "done"
              /\ resp'[p].status_code = 201
              /\ req[p].class = "DISCARDABLE" )
            => /\ \A id \in DOMAIN corrections :
                    ( /\ FieldOf(corrections[id]) = FieldOf(req[p])
                      /\ corrections[id].status = "ACTIVE"
                      /\ corrections[id].class = "FACT" )
                    => corrections'[id].status = "SUPERSEDED"
               /\ ~FieldVisible(corrections', req[p].tenant_id, req[p].subject,
                                req[p].field_key)
       /\ \A t \in Tenants : \A s \in Subjects : \A f \in FieldKeys :
            ( /\ ~FieldVisible(corrections, t, s, f)
              /\ FieldVisible(corrections', t, s, f) )
            => \E id \in DOMAIN corrections' \ DOMAIN corrections :
                  /\ FieldOf(corrections'[id]) = <<t, s, f>>
                  /\ corrections'[id].class = "FACT"]_vars

\* C29 witness: a DISCARDABLE create has answered 201 having superseded a FACT
\* that r1 could read, and r1 now gets no fact of the subject.
C29_Witness ==
    \E p \in Procs : \E x \in DOMAIN corrections :
        /\ pc[p] = "done"
        /\ resp[p].status_code = 201
        /\ req[p].class = "DISCARDABLE"
        /\ resp[p].supersedes = x
        /\ corrections[x].class = "FACT"
        /\ corrections[x].status = "SUPERSEDED"
        /\ "r1" \in corrections[x].permissions.readers
        /\ corrections[x].permissions.deny_list = {}
        /\ corrections[resp[p].correction_id].status = "ACTIVE"
        /\ GetFacts(corrections, "t1", "s1", "r1", NoCsv) = {}
====
